---------------------------- MODULE Spec2Model ----------------------------
(***************************************************************************)
(* Request-context resolution pipeline of timayz/starter: language         *)
(* negotiation, credential check, context composition, server-side         *)
(* rendering with an ambient context, the companion error views and the    *)
(* static-asset fallback of the two binaries (web and app).                *)
(***************************************************************************)
EXTENDS Integers, Sequences, FiniteSets, TLC

(***************************************************************************)
(* Bounds of the model                                                     *)
(***************************************************************************)
\* longest Accept-Language preference list a request carries
MaxHeader == 2
\* number of worker threads of the async runtime
MaxThreads == 2
\* longest request URI, in path tokens
MaxUriLen == 3

\* the two requests whose isolation from each other is at stake
Reqs == {1, 2}
Threads == 1..MaxThreads

(***************************************************************************)
(* Options and results                                                     *)
(***************************************************************************)
None == <<>>
Some(x) == <<x>>
IsSome(o) == o # <<>>
Unwrap(o) == o[1]

Range(s) == {s[i] : i \in 1..Len(s)}
SeqsUpTo(S, n) == UNION {[1..k -> S] : k \in 0..n}
StartsWith(s, p) == Len(p) <= Len(s) /\ SubSeq(s, 1, Len(p)) = p

(***************************************************************************)
(* Language tags.  Strings as they arrive in a request, and the parsed     *)
(* unic_langid::LanguageIdentifier (canonical, lower-case language).       *)
(***************************************************************************)
TagStrings == {"en", "fr", "FR", "es", "!!"}

LanguageIdentifier(l) == [language |-> l]
\* LanguageIdentifier::default(): the undetermined language
DefaultLanguageIdentifier == LanguageIdentifier("und")

\* str::parse::<LanguageIdentifier>(): case-normalising, fails on a malformed tag
ParseLanguageIdentifier(s) ==
    CASE s = "en" -> Some(LanguageIdentifier("en"))
      [] s \in {"fr", "FR"} -> Some(LanguageIdentifier("fr"))
      [] s = "es" -> Some(LanguageIdentifier("es"))
      [] OTHER -> None

\* .parse().unwrap_or_default()
ParseOrDefault(s) ==
    LET r == ParseLanguageIdentifier(s)
    IN  IF IsSome(r) THEN Unwrap(r) ELSE DefaultLanguageIdentifier

\* LanguageIdentifier::to_string()
LangIdToString(id) == id.language

\* crate::i18n::LANGUAGES, the supported language set
LANGUAGES == {LanguageIdentifier("en"), LanguageIdentifier("fr")}
\* the fallback language of LANGUAGE_LOADER
FallbackLanguage == LanguageIdentifier("en")
\* crate::i18n::LANGUAGE_LOADER: every supported language is loaded
LANGUAGE_LOADER == [loaded |-> LANGUAGES, fallback |-> FallbackLanguage]

\* FluentLanguageLoader::select_languages: the loaded bundles among the
\* requested identifiers, in request order, the fallback bundle appended
\* when it was not requested
select_languages(loader, ids) ==
    LET hit == SelectSeq(ids, LAMBDA id : id \in loader.loaded)
    IN  [current |-> IF loader.fallback \in Range(hit)
                       THEN hit
                       ELSE Append(hit, loader.fallback),
         fallback |-> loader.fallback]

\* keeps the first occurrence of every element
RECURSIVE Dedup(_)
Dedup(s) ==
    IF s = <<>> THEN <<>>
    ELSE LET front == Dedup(SubSeq(s, 1, Len(s) - 1))
             last == s[Len(s)]
         IN  IF last \in Range(front) THEN front ELSE Append(front, last)

\* the sources registered by serve(), in registration order
SourcesReversed == <<"accept-language", "query">>
Sources == <<"query", "accept-language">>

\* what one source yields for a request
SourceCandidates(src, rq) ==
    IF src = "query" THEN rq.query ELSE rq.header

RECURSIVE ConcatSources(_, _)
ConcatSources(srcs, rq) ==
    IF srcs = <<>> THEN <<>>
    ELSE SourceCandidates(Head(srcs), rq) \o ConcatSources(Tail(srcs), rq)

\* UserLanguage::preferred_languages()
preferred_languages(rq) == Dedup(ConcatSources(Sources, rq))

\* WebContext::fl_loader
fl_loader(user_lang) ==
    select_languages(LANGUAGE_LOADER,
                     [i \in 1..Len(user_lang) |-> ParseOrDefault(user_lang[i])])

\* WebContext::fl_loader_from_string
fl_loader_from_string(s) ==
    select_languages(LANGUAGE_LOADER, <<ParseOrDefault(s)>>)

\* WebContext::lang: the first current language that is supported, else the
\* loader's fallback
lang(loader) ==
    LET sup == SelectSeq(loader.current, LAMBDA id : id \in LANGUAGES)
    IN  IF sup # <<>> THEN LangIdToString(sup[1])
        ELSE LangIdToString(loader.fallback)

\* the two lines `fl_loader(user_lang)` / `lang(&fl_loader)` of from_request_parts
ResolvedLangRaw(user_lang) ==
    IF user_lang = <<>> THEN LangIdToString(FallbackLanguage) ELSE user_lang[1]
ResolvedLang(user_lang) == lang(fl_loader(user_lang))


(***************************************************************************)
(* Locale-aware formatting                                                 *)
(***************************************************************************)
\* the `match self.lang.as_str()` of format_localized
LocaleForAlwaysEn(l) ==
    [locale |-> "en_US", warned |-> l \notin {"en", "fr"}]
LocaleFor(l) ==
    CASE l = "en" -> [locale |-> "en_US", warned |-> FALSE]
      [] l = "fr" -> [locale |-> "fr_FR", warned |-> FALSE]
      [] OTHER -> [locale |-> "en_US", warned |-> TRUE]

(***************************************************************************)
(* Responses                                                               *)
(***************************************************************************)
OK == 200
BAD_REQUEST == 400
UNAUTHORIZED == 401
NOT_FOUND == 404
UNPROCESSABLE_ENTITY == 422
INTERNAL_SERVER_ERROR == 500

TextBody(t) == [kind |-> "text", text |-> t]
HtmlBody(doc) == [kind |-> "html", doc |-> doc]
AssetBody(path) == [kind |-> "asset", path |-> path]

\* Html<T>::into_response
HtmlResponse(body) ==
    [status |-> OK, ctype |-> "text/html; charset=utf-8", body |-> body]
\* <&'static str>::into_response / String::into_response
TextResponse(body) ==
    [status |-> OK, ctype |-> "text/plain; charset=utf-8", body |-> body]
\* (StatusCode, R)::into_response: the outer status replaces the inner one
WithStatus(status, res) == [res EXCEPT !.status = status]
\* ([(CONTENT_TYPE, v)], R)::into_response
WithContentType(ctype, res) == [res EXCEPT !.ctype = ctype]

\* the rejection of the JwtPayload extractor, propagated by `?`
UnauthorizedRejection ==
    WithStatus(UNAUTHORIZED, HtmlResponse(TextBody("Unauthorized")))
\* Err((StatusCode::BAD_REQUEST, Html("Bad Request")))
BadRequestRejection ==
    WithStatus(BAD_REQUEST, HtmlResponse(TextBody("Bad Request")))

(***************************************************************************)
(* Views and rendering                                                     *)
(***************************************************************************)
View(name, props) == [name |-> name, props |-> props]
PageView == View("Page", None)
NotFoundPage == View("NotFoundPage", None)
InternalServerErrorAlert == View("InternalServerErrorAlert", None)
InternalServerErrorPage == View("InternalServerErrorPage", None)
UnprocessableEntityAlert(errors) ==
    View("UnprocessableEntityAlert", Some(errors))

\* ssr::render_to_string of a view whose components read use_app()
RenderToString(view, ctx) ==
    <<[view |-> view, lang |-> ctx.lang, minified |-> FALSE]>>
\* minify(html.as_bytes(), &Cfg::new()): the bytes of the minified document, or
\* bytes that are no valid UTF-8
Minify(html, valid) ==
    IF valid THEN Some(<<[html[1] EXCEPT !.minified = TRUE]>>) ELSE None
\* std::str::from_utf8(..).unwrap_or_default().to_owned(): "" on invalid bytes
MinifiedOrDefault(html, valid) ==
    LET bytes == Minify(html, valid)
    IN  IF IsSome(bytes) THEN Unwrap(bytes) ELSE <<>>

\* AppContext::html
AppContext_html(doc) == WithStatus(OK, HtmlResponse(HtmlBody(doc)))
\* AppContext::internal_server_error
internal_server_error_unwrapped(doc) == AppContext_html(doc)
internal_server_error(doc) ==
    WithStatus(INTERNAL_SERVER_ERROR, AppContext_html(doc))
\* AppContext::internal_server_error_page
internal_server_error_page(doc) ==
    WithStatus(INTERNAL_SERVER_ERROR, AppContext_html(doc))
\* AppContext::unprocessable_entity
unprocessable_entity(doc) ==
    WithStatus(UNPROCESSABLE_ENTITY, AppContext_html(doc))
\* AppContext::not_found_page
not_found_page(doc) == WithStatus(NOT_FOUND, AppContext_html(doc))
\* the not-found branch of the web static_handler
static_not_found(doc) ==
    WithStatus(NOT_FOUND, WithContentType("text/html", TextResponse(HtmlBody(doc))))

\* the response a handler builds around the document WebContext::html returned
FinishResponse(op, doc) ==
    CASE op = "html" -> AppContext_html(doc)
      [] op = "internal_server_error" -> internal_server_error(doc)
      [] op = "internal_server_error_page" -> internal_server_error_page(doc)
      [] op = "unprocessable_entity" -> unprocessable_entity(doc)
      [] op = "not_found_page" -> not_found_page(doc)
      [] op = "static_not_found" -> static_not_found(doc)
      [] OTHER -> TextResponse(HtmlBody(doc))

(***************************************************************************)
(* Static assets                                                           *)
(***************************************************************************)
UriTokens == {"/b", "/static/", "a.css", "/x"}
\* the embedded asset table (#[folder = "public/"], #[prefix = "/static/"])
Assets == {<<"/static/", "a.css">>, <<"/static/", "/x">>}
\* Assets::get
AssetsGet(path) == IF path \in Assets THEN Some(AssetBody(path)) ELSE None
\* mime_guess::from_path(path).first_or_octet_stream()
MimeGuess(path) ==
    IF path # <<>> /\ path[Len(path)] = "a.css"
    THEN "text/css" ELSE "application/octet-stream"

\* the base_url.map(..).unwrap_or(uri) of both static handlers
KeepBase(base_url, uri) == uri
StripBase(base_url, uri) ==
    IF IsSome(base_url) /\ StartsWith(uri, Unwrap(base_url))
    THEN SubSeq(uri, Len(Unwrap(base_url)) + 1, Len(uri))
    ELSE uri

\* the `match Assets::get(path.as_str())` of both static handlers
AssetResponse(path) ==
    IF IsSome(AssetsGet(path))
    THEN WithContentType(MimeGuess(path),
                         [status |-> OK, ctype |-> "application/octet-stream",
                          body |-> Unwrap(AssetsGet(path))])
    ELSE WithStatus(NOT_FOUND, TextResponse(TextBody("404 Not Found")))

\* `!path.starts_with("/static/")` of the web static_handler
RendersNotFoundAlways(path) == ~IsSome(AssetsGet(path))
RendersNotFound(path) == ~StartsWith(path, <<"/static/">>)


(***************************************************************************)
(* State                                                                   *)
(***************************************************************************)
VARIABLES
    config,       \* AppConfig: [base_url]
    req,          \* the requests: route, credential, language data, URI
    pc,           \* each request's position in its pipeline
    jwt_claims,   \* Option<JwtClaims> of the request
    user_lang,    \* Option<preferred languages> the UserLanguage extractor gave
    web_context,  \* Option<WebContext>: [config, lang, fl_loader]
    feed,         \* Option<[feed_cmd, feed_query]> of an AppContext
    nextUlid,     \* the identifiers Ulid::new() has handed out so far
    pending,      \* Option<[op, view]>: the render call a handler is making
    thread,       \* the thread a request's render call runs on (0: none)
    ambient,      \* per runtime slot, the context provide_context registered
    seen,         \* Option<WebContext> the view got from use_app()
    html,         \* Option<String>: the raw document render_to_string returned
    minified_ok,  \* Option<BOOLEAN>: whether minify's output was valid UTF-8
    formatted,    \* Option<[locale, warned]> of a format_localized call
    path,         \* Option<path> a static handler looked up
    log,          \* the diagnostics written for the request
    resp          \* Option<response>: the rejection or response of the request

vars == <<config, req, pc, jwt_claims, user_lang, web_context, feed, nextUlid,
          pending, thread, ambient, seen, html, minified_ok, formatted, path,
          log, resp>>

extractVars == <<jwt_claims, user_lang, web_context, feed, nextUlid>>
renderVars == <<pending, thread, ambient, seen, html, minified_ok>>

Creds == {"missing", "expired", "invalid", "valid"}
Errs == {"db down", "secret"}
ValidationErrors == {"title: required", "body: length"}

Request(route, cred, fault, query, header, ev, uri) ==
    [route |-> route, cred |-> cred, fault |-> fault, query |-> query,
     header |-> header, ev |-> ev, uri |-> uri]

Queries(S) == {None} \cup {Some(s) : s \in S}

\* requests drawn over every language input
WideRequests ==
    {Request("app", c, f, q, h, "en", <<>>) :
        c \in Creds, f \in BOOLEAN, q \in Queries(TagStrings),
        h \in SeqsUpTo(TagStrings, MaxHeader)}
    \cup {Request("web", c, f, q, h, "en", u) :
        c \in Creds, f \in BOOLEAN, q \in Queries(TagStrings),
        h \in SeqsUpTo(TagStrings, MaxHeader),
        u \in {<<"/x">>, <<"/static/", "a.css">>}}
    \cup {Request("evento", "missing", FALSE, None, <<>>, e, <<>>) :
        e \in TagStrings}
    \cup {Request("public", "missing", FALSE, None, <<>>, "en", u) :
        u \in {<<"/x">>, <<"/static/", "a.css">>}}

\* requests drawn over every URI
UriRequests ==
    {Request("web", "missing", f, q, <<>>, "en", u) :
        f \in BOOLEAN, q \in Queries({"fr"}), u \in SeqsUpTo(UriTokens, MaxUriLen)}
    \cup {Request("public", "missing", FALSE, None, <<>>, "en", u) :
        u \in SeqsUpTo(UriTokens, MaxUriLen)}
    \cup {Request("app", c, FALSE, None, <<"fr">>, "en", <<>>) :
        c \in {"valid", "expired"}}
    \cup {Request("evento", "missing", FALSE, None, <<>>, "es", <<>>)}

\* requests of the concurrent specification
FewRequests ==
    {Request("app", c, FALSE, q, <<>>, "en", <<>>) :
        c \in {"valid", "invalid"}, q \in Queries({"fr"})}
    \cup {Request("web", "missing", f, None, h, "en", <<"/x">>) :
        f \in BOOLEAN, h \in {<<>>, <<"fr", "en">>}}
    \cup {Request("evento", "missing", FALSE, None, <<>>, e, <<>>) :
        e \in {"fr", "es"}}
    \cup {Request("public", "missing", FALSE, None, <<>>, "en", <<"/static/", "a.css">>)}

Configs == {[base_url |-> None], [base_url |-> Some(<<"/b">>)]}

InitState(active) ==
    /\ pc = [r \in Reqs |-> IF r \in active THEN "start" ELSE "off"]
    /\ jwt_claims = [r \in Reqs |-> None]
    /\ user_lang = [r \in Reqs |-> None]
    /\ web_context = [r \in Reqs |-> None]
    /\ feed = [r \in Reqs |-> None]
    /\ nextUlid = 0
    /\ pending = [r \in Reqs |-> None]
    /\ thread = [r \in Reqs |-> 0]
    /\ ambient = [t \in Threads |-> None]
    /\ seen = [r \in Reqs |-> None]
    /\ html = [r \in Reqs |-> None]
    /\ minified_ok = [r \in Reqs |-> None]
    /\ formatted = [r \in Reqs |-> None]
    /\ path = [r \in Reqs |-> None]
    /\ log = [r \in Reqs |-> <<>>]
    /\ resp = [r \in Reqs |-> None]

IdleRequest == Request("public", "missing", FALSE, None, <<>>, "en", <<>>)

\* one request, every language input
Init ==
    /\ config \in Configs
    /\ \E rq \in WideRequests : req = [r \in Reqs |-> IF r = 1 THEN rq ELSE IdleRequest]
    /\ InitState({1})

\* one request, every URI
InitStatic ==
    /\ config \in Configs
    /\ \E rq \in UriRequests : req = [r \in Reqs |-> IF r = 1 THEN rq ELSE IdleRequest]
    /\ InitState({1})

\* all requests in flight together
InitConcurrent ==
    /\ config = [base_url |-> None]
    /\ req \in [Reqs -> FewRequests]
    /\ InitState(Reqs)

(***************************************************************************)
(* Extraction: AppContext::from_request_parts                              *)
(***************************************************************************)
\* JwtPayload::<JwtClaims>::from_request_parts
JwtPayload(cred) == IF cred = "valid" THEN Some([sub |-> "user"]) ELSE None

\* `...await?`: a rejection of the credential ends the extraction
AfterJwtContinue(res) == "lang"
AfterJwt(res) == IF IsSome(res) THEN "lang" ELSE "rejected"

\* UserLanguage::from_request_parts: the preferred languages, or an
\* extraction fault
UserLanguage(rq) == IF rq.fault THEN None ELSE Some(preferred_languages(rq))

\* `let Ok(user_lang) = ... else { return Err(BAD_REQUEST) }`
LetOkUserLangOrDefault(res) ==
    [rejected |-> FALSE, user_lang |-> IF IsSome(res) THEN res ELSE Some(<<>>)]
LetOkUserLang(res) == [rejected |-> ~IsSome(res), user_lang |-> res]

\* WebContext { config, fl_loader, lang }
WebContext(cfg, loader, l) == [config |-> cfg, fl_loader |-> loader, lang |-> l]

AppJwt(r) ==
    /\ pc[r] = "start" /\ req[r].route = "app"
    /\ LET res == JwtPayload(req[r].cred)
           next == AfterJwt(res)
       IN  /\ jwt_claims' = [jwt_claims EXCEPT ![r] = res]
           /\ pc' = [pc EXCEPT ![r] = next]
           /\ resp' = IF next = "rejected"
                        THEN [resp EXCEPT ![r] = Some(UnauthorizedRejection)]
                        ELSE resp
    /\ UNCHANGED <<config, req, user_lang, web_context, feed, nextUlid,
                   renderVars, formatted, path, log>>

UserLanguageStep(r) ==
    LET got == LetOkUserLang(UserLanguage(req[r]))
    IN  /\ user_lang' = [user_lang EXCEPT ![r] = got.user_lang]
        /\ pc' = [pc EXCEPT ![r] = IF got.rejected THEN "rejected" ELSE "compose"]
        /\ resp' = IF got.rejected
                     THEN [resp EXCEPT ![r] = Some(BadRequestRejection)]
                     ELSE resp
        /\ UNCHANGED <<config, req, jwt_claims, web_context, feed, nextUlid,
                       renderVars, formatted, path, log>>

AppUserLanguage(r) ==
    /\ pc[r] = "lang" /\ req[r].route = "app"
    /\ UserLanguageStep(r)

AppCompose(r) ==
    /\ pc[r] = "compose" /\ req[r].route = "app"
    /\ LET ul == Unwrap(user_lang[r])
           l == ResolvedLang(ul)
           sub == IF IsSome(jwt_claims[r]) THEN Unwrap(jwt_claims[r]).sub ELSE ""
       IN  /\ web_context' = [web_context EXCEPT ![r] =
                                 Some(WebContext(config, fl_loader(ul), l))]
           /\ feed' = [feed EXCEPT ![r] =
                         Some([feed_cmd |-> [user_id |-> sub,
                                             request_id |-> nextUlid + 1,
                                             user_lang |-> l],
                               feed_query |-> [user_id |-> sub]])]
    /\ nextUlid' = nextUlid + 1
    /\ pc' = [pc EXCEPT ![r] = "handler"]
    /\ UNCHANGED <<config, req, jwt_claims, user_lang, renderVars, formatted,
                   path, log, resp>>

(***************************************************************************)
(* Extraction: WebContext::from_request_parts, From<(&EventoContext, String)> *)
(***************************************************************************)
WebUserLanguage(r) ==
    /\ pc[r] = "start" /\ req[r].route = "web"
    /\ UserLanguageStep(r)

WebCompose(r) ==
    /\ pc[r] = "compose" /\ req[r].route = "web"
    /\ LET ul == Unwrap(user_lang[r])
       IN  web_context' = [web_context EXCEPT ![r] =
                             Some(WebContext(config, fl_loader(ul), ResolvedLang(ul)))]
    /\ pc' = [pc EXCEPT ![r] = "handler"]
    /\ UNCHANGED <<config, req, jwt_claims, user_lang, feed, nextUlid, renderVars,
                   formatted, path, log, resp>>

\* impl From<(&EventoContext, String)> for WebContext
FromEvento(r) ==
    /\ pc[r] = "start" /\ req[r].route = "evento"
    /\ web_context' = [web_context EXCEPT ![r] =
          Some(WebContext(config, fl_loader_from_string(req[r].ev), req[r].ev))]
    /\ pc' = [pc EXCEPT ![r] = "handler"]
    /\ UNCHANGED <<config, req, jwt_claims, user_lang, feed, nextUlid, renderVars,
                   formatted, path, log, resp>>


(***************************************************************************)
(* Handlers: what a route handler or subscriber does with its context      *)
(***************************************************************************)
HasAppContext(r) == pc[r] = "handler" /\ req[r].route = "app"

\* a handler starts a render call: WebContext::html is entered
StartRender(r, op, view) ==
    /\ pending' = [pending EXCEPT ![r] = Some([op |-> op, view |-> view])]
    /\ pc' = [pc EXCEPT ![r] = "render"]
    /\ UNCHANGED <<config, req, extractVars, thread, ambient, seen, html,
                   minified_ok, formatted, path, resp>>

\* error!("{err}")
LogError(r, err) ==
    log' = [log EXCEPT ![r] = Append(@, [level |-> "error", msg |-> err])]

\* AppContext::html
CallHtml(r) ==
    /\ HasAppContext(r)
    /\ StartRender(r, "html", PageView)
    /\ UNCHANGED log

\* AppContext::internal_server_error
CallInternalServerError(r, err) ==
    /\ HasAppContext(r)
    /\ LogError(r, err)
    /\ StartRender(r, "internal_server_error", InternalServerErrorAlert)

\* AppContext::internal_server_error_page
CallInternalServerErrorPage(r, err) ==
    /\ HasAppContext(r)
    /\ LogError(r, err)
    /\ StartRender(r, "internal_server_error_page", InternalServerErrorPage)

\* AppContext::unprocessable_entity
CallUnprocessableEntity(r, errors) ==
    /\ HasAppContext(r)
    /\ StartRender(r, "unprocessable_entity", UnprocessableEntityAlert(errors))
    /\ UNCHANGED log

\* AppContext::not_found_page
CallNotFoundPage(r) ==
    /\ HasAppContext(r)
    /\ StartRender(r, "not_found_page", NotFoundPage)
    /\ UNCHANGED log

\* a subscriber renders with the context it built from an event
CallWebContextHtml(r) ==
    /\ pc[r] = "handler" /\ req[r].route = "evento"
    /\ StartRender(r, "string", PageView)
    /\ UNCHANGED log

\* WebContext::format_localized
FormatLocalized(r) ==
    /\ pc[r] = "handler" /\ req[r].route \in {"app", "evento"}
    /\ formatted[r] = None
    /\ LET loc == LocaleFor(Unwrap(web_context[r]).lang)
       IN  /\ formatted' = [formatted EXCEPT ![r] = Some(loc)]
           /\ log' = IF loc.warned
                       THEN [log EXCEPT ![r] = Append(@,
                               [level |-> "warn", msg |-> Unwrap(web_context[r]).lang])]
                       ELSE log
    /\ UNCHANGED <<config, req, pc, extractVars, renderVars, path, resp>>

\* static_handler of the web binary: runs with the WebContext it extracted
WebStaticHandler(r) ==
    /\ pc[r] = "handler" /\ req[r].route = "web"
    /\ LET p == StripBase(config.base_url, req[r].uri)
       IN  /\ path' = [path EXCEPT ![r] = Some(p)]
           /\ IF RendersNotFound(p)
                THEN /\ pending' = [pending EXCEPT ![r] =
                                      Some([op |-> "static_not_found", view |-> NotFoundPage])]
                     /\ pc' = [pc EXCEPT ![r] = "render"]
                     /\ resp' = resp
                ELSE /\ resp' = [resp EXCEPT ![r] = Some(AssetResponse(p))]
                     /\ pc' = [pc EXCEPT ![r] = "done"]
                     /\ pending' = pending
    /\ UNCHANGED <<config, req, extractVars, thread, ambient, seen, html,
                   minified_ok, formatted, log>>

\* static_handler of the app binary: no context is extracted
AppStaticHandler(r) ==
    /\ pc[r] = "start" /\ req[r].route = "public"
    /\ LET p == StripBase(config.base_url, req[r].uri)
       IN  /\ path' = [path EXCEPT ![r] = Some(p)]
           /\ resp' = [resp EXCEPT ![r] = Some(AssetResponse(p))]
    /\ pc' = [pc EXCEPT ![r] = "done"]
    /\ UNCHANGED <<config, req, extractVars, renderVars, formatted, log>>

(***************************************************************************)
(* WebContext::html.  The call is synchronous: it runs from begin to end   *)
(* on one thread, and other threads run theirs meanwhile.                  *)
(***************************************************************************)
\* the thread-local slot holding the runtime of the render call on thread t
RuntimeSlotShared(t) == 1
RuntimeSlot(t) == t

\* `let ctx = self.clone()`: the context handed to provide_context
ProvidedContext(r) == web_context[r]

\* use_app(): use_context() of the runtime current on the calling thread
use_app(t) == ambient[RuntimeSlot(t)]

ThreadFree(t) == \A r \in Reqs : thread[r] # t

\* render_to_string creates the runtime; the closure calls provide_context(ctx)
RenderBegin(r, t) ==
    /\ pc[r] = "render"
    /\ ThreadFree(t)
    /\ thread' = [thread EXCEPT ![r] = t]
    /\ ambient' = [ambient EXCEPT ![RuntimeSlot(t)] = ProvidedContext(r)]
    /\ pc' = [pc EXCEPT ![r] = "view"]
    /\ UNCHANGED <<config, req, extractVars, pending, seen, html, minified_ok,
                   formatted, path, log, resp>>

\* f(): the view runs and its components call use_app()
RenderView(r) ==
    /\ pc[r] = "view"
    /\ LET got == use_app(thread[r])
       IN  /\ seen' = [seen EXCEPT ![r] = got]
           /\ IF IsSome(got)
                THEN /\ html' = [html EXCEPT ![r] =
                            Some(RenderToString(Unwrap(pending[r]).view, Unwrap(got)))]
                     /\ pc' = [pc EXCEPT ![r] = "rendered"]
                ELSE \* .expect("WebContext not configured correctly")
                     /\ html' = html
                     /\ pc' = [pc EXCEPT ![r] = "panicked"]
    /\ UNCHANGED <<config, req, extractVars, pending, thread, ambient, minified_ok,
                   formatted, path, log, resp>>

\* render_to_string disposes of its runtime and returns; the document is
\* minified and the handler wraps the result
RenderEnd(r, valid) ==
    /\ pc[r] = "rendered"
    /\ ambient' = [ambient EXCEPT ![RuntimeSlot(thread[r])] = None]
    /\ thread' = [thread EXCEPT ![r] = 0]
    /\ minified_ok' = [minified_ok EXCEPT ![r] = Some(valid)]
    /\ resp' = [resp EXCEPT ![r] =
                  Some(FinishResponse(Unwrap(pending[r]).op,
                                      MinifiedOrDefault(Unwrap(html[r]), valid)))]
    /\ pc' = [pc EXCEPT ![r] = "done"]
    /\ UNCHANGED <<config, req, extractVars, pending, seen, html, formatted, path,
                   log>>

(***************************************************************************)
(* Specifications                                                          *)
(***************************************************************************)
Next ==
    \E r \in Reqs :
        \/ AppJwt(r)
        \/ AppUserLanguage(r)
        \/ AppCompose(r)
        \/ WebUserLanguage(r)
        \/ WebCompose(r)
        \/ FromEvento(r)
        \/ CallHtml(r)
        \/ \E err \in Errs : CallInternalServerError(r, err)
        \/ \E err \in Errs : CallInternalServerErrorPage(r, err)
        \/ \E errors \in ValidationErrors : CallUnprocessableEntity(r, errors)
        \/ CallNotFoundPage(r)
        \/ CallWebContextHtml(r)
        \/ FormatLocalized(r)
        \/ WebStaticHandler(r)
        \/ AppStaticHandler(r)
        \/ \E t \in Threads : RenderBegin(r, t)
        \/ RenderView(r)
        \/ \E valid \in BOOLEAN : RenderEnd(r, valid)

\* one request at a time, over every language input
Spec == Init /\ [][Next]_vars
\* one request at a time, over every URI
SpecStatic == InitStatic /\ [][Next]_vars
\* both requests in flight on MaxThreads threads
SpecConcurrent == InitConcurrent /\ [][Next]_vars


(***************************************************************************)
(* Properties                                                              *)
(***************************************************************************)
Extracted(r) == req[r].route \in {"app", "web"} /\ IsSome(web_context[r])
SupportedTag(s) ==
    /\ IsSome(ParseLanguageIdentifier(s))
    /\ Unwrap(ParseLanguageIdentifier(s)) \in LANGUAGES
FallbackTag == LangIdToString(FallbackLanguage)
\* the language-extraction step of request r has run
LanguageStepRan(r) ==
    \/ req[r].route = "web" /\ pc[r] # "start"
    \/ req[r].route = "app" /\ req[r].cred = "valid" /\ pc[r] \notin {"start", "lang"}
Composed(r) == pc[r] \notin {"start", "lang", "compose", "rejected", "off"}

\* C1: when the `lang` query parameter names a supported language, the
\* context's lang is that language, whatever the Accept-Language header holds.
C1_QueryParameterWins ==
    \A r \in Reqs :
        (Extracted(r) /\ IsSome(req[r].query) /\ SupportedTag(Unwrap(req[r].query)))
        => Unwrap(web_context[r]).lang
             = LangIdToString(Unwrap(ParseLanguageIdentifier(Unwrap(req[r].query))))

\* C1 witness: query fr wins over a header that prefers en
C1_Witness ==
    /\ Extracted(1)
    /\ req[1].query = Some("fr")
    /\ req[1].header = <<"en", "!!">>
    /\ Unwrap(web_context[1]).lang = "fr"

\* C2: when no source yields a supported tag the context's lang is the
\* fallback tag and the request is not rejected; only an extraction fault,
\* never an unparseable tag, gives Bad Request.
C2_FallbackWhenNothingSupported ==
    \A r \in Reqs :
        /\ (/\ LanguageStepRan(r)
            /\ ~req[r].fault
            /\ pc[r] # "compose"
            /\ \A s \in Range(req[r].query \o req[r].header) : ~SupportedTag(s))
           => /\ pc[r] # "rejected"
              /\ IsSome(web_context[r])
              /\ Unwrap(web_context[r]).lang = FallbackTag
        /\ resp[r] = Some(BadRequestRejection) => req[r].fault

\* C2 witness: a malformed query tag and an unsupported header tag
C2_Witness ==
    /\ req[1].route = "web"
    /\ req[1].query = Some("!!")
    /\ req[1].header = <<"es", "!!">>
    /\ IsSome(web_context[1])
    /\ Unwrap(web_context[1]).lang = "en"

\* C3: every context's lang is a supported tag or the fallback tag, and is
\* the language its fl_loader was selected for.
C3_LangSupportedAndOfLoader ==
    \A r \in Reqs :
        IsSome(web_context[r])
        => /\ Unwrap(web_context[r]).lang
                \in {LangIdToString(id) : id \in LANGUAGES \cup {FallbackLanguage}}
           /\ Unwrap(web_context[r]).lang = lang(Unwrap(web_context[r]).fl_loader)

\* the document in the response of a finished render call
Doc(r) == Unwrap(resp[r]).body.doc
RenderDone(r) == pc[r] = "done" /\ IsSome(pending[r])

\* C4: html returns the minified document when minification succeeds and the
\* unminified rendered document when it fails, never an empty string.
C4_MinifyFailureKeepsDocument ==
    \A r \in Reqs :
        RenderDone(r)
        => /\ minified_ok[r] = Some(TRUE)
                => Doc(r) = <<[Unwrap(html[r])[1] EXCEPT !.minified = TRUE]>>
           /\ minified_ok[r] = Some(FALSE) => Doc(r) = Unwrap(html[r])
           /\ Doc(r) # <<>>

\* C5: on the authenticated path a request without a valid credential is
\* rejected Unauthorized and nothing later runs for it: no language
\* extraction, no identifier, no context.
C5_CredentialFirst ==
    /\ \A r \in Reqs :
        (req[r].route = "app" /\ req[r].cred # "valid" /\ pc[r] # "start")
        => /\ pc[r] = "rejected"
           /\ resp[r] = Some(UnauthorizedRejection)
           /\ user_lang[r] = None
           /\ web_context[r] = None
           /\ feed[r] = None
    /\ nextUlid = Cardinality({r \in Reqs : IsSome(feed[r])})

\* C5 witness: an expired credential with unreadable language data
C5_Witness ==
    /\ req[1].route = "app"
    /\ req[1].cred = "expired"
    /\ req[1].fault
    /\ pc[1] = "rejected"
    /\ Unwrap(resp[1]).status = UNAUTHORIZED

\* C6: a failed language extraction rejects the request 400 "Bad Request" on
\* both paths with no context composed; the anonymous path checks no
\* credential and composes a context whenever the extraction succeeds.
C6_LanguageFaultIsBadRequest ==
    \A r \in Reqs :
        /\ (LanguageStepRan(r) /\ req[r].fault)
           => /\ pc[r] = "rejected"
              /\ Unwrap(resp[r]).status = BAD_REQUEST
              /\ Unwrap(resp[r]).body = TextBody("Bad Request")
              /\ user_lang[r] = None
              /\ web_context[r] = None
              /\ feed[r] = None
        /\ (req[r].route = "web" /\ ~req[r].fault /\ pc[r] \notin {"start", "compose"})
           => /\ IsSome(web_context[r])
              /\ jwt_claims[r] = None
              /\ pc[r] # "rejected"

\* C6 witness: the authenticated path, valid credential, unreadable language
C6_Witness ==
    /\ req[1].route = "app"
    /\ req[1].cred = "valid"
    /\ req[1].fault
    /\ resp[1] = Some(BadRequestRejection)
    /\ web_context[1] = None

\* C7: the view of a render call sees the context of its own request only,
\* on every interleaving, and no context stays registered once the call ended.
C7_RenderIsolation ==
    /\ \A r \in Reqs :
        /\ IsSome(seen[r]) => seen[r] = web_context[r]
        /\ pc[r] \in {"view", "rendered"} => use_app(thread[r]) = web_context[r]
        /\ IsSome(html[r]) => Unwrap(html[r])[1].lang = Unwrap(web_context[r]).lang
        /\ pc[r] # "panicked"
    /\ \A t \in Threads : ThreadFree(t) => ambient[t] = None

\* C7 witness: both requests are inside their render call, with different
\* languages
C7_Witness ==
    /\ pc[1] = "rendered" /\ pc[2] = "rendered"
    /\ Unwrap(web_context[1]).lang # Unwrap(web_context[2]).lang
    /\ thread[1] # thread[2]
    /\ Unwrap(seen[1]).lang = "fr"

BareNotFound == WithStatus(NOT_FOUND, TextResponse(TextBody("404 Not Found")))
StaticDone(r) == req[r].route \in {"web", "public"} /\ pc[r] = "done" /\ IsSome(path[r])
\* the response carries html's result for the not-found page
RenderedNotFoundPage(r) ==
    /\ IsSome(pending[r]) /\ Unwrap(pending[r]).view = NotFoundPage
    /\ Unwrap(resp[r]).status = NOT_FOUND
    /\ Unwrap(resp[r]).body.kind = "html"

\* C8 as stated: a path matching no asset gives the rendered not-found page
\* in the web handler and a bare 404 in the app handler.
C8_Original ==
    \A r \in Reqs :
        (StaticDone(r) /\ Unwrap(path[r]) \notin Assets)
        => IF req[r].route = "web" THEN RenderedNotFoundPage(r)
           ELSE resp[r] = Some(BareNotFound)

\* C8 amended: the base path is stripped when the URI starts with it; the web
\* handler renders the not-found page only for a path outside /static/ and
\* answers a bare 404 for a path under /static/ that matches no asset; the
\* app handler answers a bare 404 for every path matching no asset; an asset
\* is served with the content type of its extension.
C8_StaticFallback ==
    \A r \in Reqs :
        StaticDone(r)
        => LET p == Unwrap(path[r])
               b == config.base_url
           IN  /\ IF IsSome(b) /\ \E q \in SeqsUpTo(UriTokens, MaxUriLen) :
                                     req[r].uri = Unwrap(b) \o q
                    THEN req[r].uri = Unwrap(b) \o p
                    ELSE p = req[r].uri
               /\ p \in Assets
                    => /\ Unwrap(resp[r]).status = OK
                       /\ Unwrap(resp[r]).body = AssetBody(p)
                       /\ Unwrap(resp[r]).ctype
                            = IF p[Len(p)] = "a.css" THEN "text/css"
                              ELSE "application/octet-stream"
               /\ (p \notin Assets /\ req[r].route = "public")
                    => resp[r] = Some(BareNotFound)
               /\ (p \notin Assets /\ req[r].route = "web" /\ StartsWith(p, <<"/static/">>))
                    => resp[r] = Some(BareNotFound) /\ pending[r] = None
               /\ (req[r].route = "web" /\ ~StartsWith(p, <<"/static/">>))
                    => /\ RenderedNotFoundPage(r)
                       /\ Unwrap(resp[r]).ctype = "text/html"

\* C8 witness: the web handler, base path stripped, a path under /static/
\* that matches no asset
C8_Witness ==
    /\ StaticDone(1) /\ req[1].route = "web"
    /\ config.base_url = Some(<<"/b">>)
    /\ req[1].uri = <<"/b", "/static/", "/b">>
    /\ Unwrap(path[1]) = <<"/static/", "/b">>
    /\ resp[1] = Some(BareNotFound)

HasWarning(r, l) == \E i \in 1..Len(log[r]) : log[r][i] = [level |-> "warn", msg |-> l]

\* C9: format_localized uses en_US for "en", fr_FR for "fr", and en_US with
\* a warning for every other lang.
C9_LocaleMapping ==
    \A r \in Reqs :
        IsSome(formatted[r])
        => LET l == Unwrap(web_context[r]).lang
               f == Unwrap(formatted[r])
           IN  /\ l = "en" => f.locale = "en_US" /\ ~HasWarning(r, l)
               /\ l = "fr" => f.locale = "fr_FR" /\ ~HasWarning(r, l)
               /\ l \notin {"en", "fr"} => f.locale = "en_US" /\ HasWarning(r, l)

\* C9 witness: a context whose lang is neither en nor fr was formatted
C9_Witness ==
    /\ IsSome(formatted[1])
    /\ Unwrap(web_context[1]).lang = "es"
    /\ Unwrap(formatted[1]).locale = "en_US"
    /\ HasWarning(1, "es")

Op(r) == Unwrap(pending[r]).op
HasError(r) == \E i \in 1..Len(log[r]) : log[r][i].level = "error"
ErrorViews ==
    {"not_found_page", "unprocessable_entity", "internal_server_error",
     "internal_server_error_page"}

\* C10: the error views answer 404, 422 and 500, never the 200 of the inner
\* html response; the 500 views log the error before rendering and render a
\* view that carries nothing of it; the 422 view renders the given errors.
C10_ErrorViewStatus ==
    \A r \in Reqs :
        /\ (IsSome(pending[r])
            /\ Op(r) \in {"internal_server_error", "internal_server_error_page"})
           => /\ HasError(r)
              /\ Unwrap(pending[r]).view.props = None
        /\ RenderDone(r)
           => /\ Op(r) = "not_found_page" => Unwrap(resp[r]).status = 404
              /\ Op(r) = "unprocessable_entity"
                   => /\ Unwrap(resp[r]).status = 422
                      /\ Unwrap(html[r])[1].view.name = "UnprocessableEntityAlert"
                      /\ Unwrap(html[r])[1].view.props = Unwrap(pending[r]).view.props
                      /\ Unwrap(Unwrap(html[r])[1].view.props) \in ValidationErrors
              /\ Op(r) \in {"internal_server_error", "internal_server_error_page"}
                   => /\ Unwrap(resp[r]).status = 500
                      /\ Unwrap(html[r])[1].view.props = None
              /\ Op(r) = "html" => Unwrap(resp[r]).status = 200
              /\ Unwrap(resp[r]).ctype = IF Op(r) = "static_not_found" THEN "text/html"
                                         ELSE IF Op(r) = "string"
                                              THEN "text/plain; charset=utf-8"
                                              ELSE "text/html; charset=utf-8"

\* C10 witness: internal_server_error answered 500 after logging the error
C10_Witness ==
    /\ RenderDone(1)
    /\ Op(1) = "internal_server_error"
    /\ log[1] = <<[level |-> "error", msg |-> "secret"]>>
    /\ Unwrap(resp[1]).status = 500

=============================================================================
